---- MODULE Spec2Model ----
(***************************************************************************)
(* Credential and identity resolution of the IdeaFly backend.             *)
(*                                                                         *)
(* The store is the relational state behind the SQLAlchemy session: the    *)
(* committed rows of `users` and `oauth_profiles` with the constraints     *)
(* that auth/models.py declares.  Every request owns its own session; a    *)
(* query reads the committed rows, a commit applies the pending rows       *)
(* atomically or raises IntegrityError.  Row and response constructors are *)
(* taken at their interface (they build the row or the response they are   *)
(* given); the exception classes of core/exceptions.py and the helpers of  *)
(* core/security.py are modelled by what their code computes.              *)
(***************************************************************************)
EXTENDS Integers, Sequences, FiniteSets, TLC

\* ---- bounds ------------------------------------------------------------
NumProcs == 2
MaxOps == 2

Procs == 1..NumProcs
None == "None"

\* ---- inputs ------------------------------------------------------------
RawEmails == {"a@x.com", "A@x.com", "b@x.com"}
Passwords == {"abcdefg1", "zyxwvut9"}
\* too short, no digit, no letter, deny-listed substring
WeakPasswords == {"abcdef1", "abcdefgh", "24681357", "Admin2468"}
Subjects == {"g1", "g2"}

\* str.lower().strip() on the e-mail inputs
Lower(email) == IF email = "A@x.com" THEN "a@x.com" ELSE email

\* The Google account behind an access token (id and email of userinfo).
GoogleTokens == [id : Subjects, email : {"a@x.com", "b@x.com"}]

\* ---- core/exceptions.py -------------------------------------------------
ErrorCode == {"UNAUTHORIZED", "INVALID_CREDENTIALS", "INVALID_TOKEN",
              "TOKEN_EXPIRED", "VALIDATION_ERROR", "EMAIL_EXISTS",
              "USER_NOT_FOUND", "INTERNAL_SERVER_ERROR", "DATABASE_ERROR"}

\* error_code.value on a value that is not an ErrorCode member
AttributeError ==
    [type |-> "AttributeError", status_code |-> 0, error_code |-> None,
     message |-> "'str' object has no attribute 'value'"]

KeyError(key) ==
    [type |-> "KeyError", status_code |-> 0, error_code |-> None, message |-> key]

\* The exception a `raise Cls(...)` statement ends up raising: the instance,
\* or AttributeError when __init__ evaluates error_code.value on a plain str.
BaseAPIException(type, status_code, error_code, message) ==
    IF error_code \in ErrorCode
    THEN [type |-> type, status_code |-> status_code,
          error_code |-> error_code, message |-> message]
    ELSE AttributeError

\* AuthenticationException(error_code=UNAUTHORIZED, message="Authentication
\* required", details=None): the first positional argument is error_code.
AuthenticationException(error_code) ==
    BaseAPIException("AuthenticationException", 401, error_code,
                     "Authentication required")

InvalidCredentialsException_positional ==
    AuthenticationException("Email or password is incorrect")

InvalidCredentialsException ==
    BaseAPIException("InvalidCredentialsException", 401, "INVALID_CREDENTIALS",
                     "Email or password is incorrect")

ValidationException(message) ==
    BaseAPIException("ValidationException", 400, "VALIDATION_ERROR", message)

EmailExistsException ==
    BaseAPIException("EmailExistsException", 409, "EMAIL_EXISTS",
                     "An account with this email already exists")

DatabaseException(operation) ==
    BaseAPIException("DatabaseException", 503, "DATABASE_ERROR",
                     "Database error during " \o operation)

InvalidTokenException(message) ==
    BaseAPIException("InvalidTokenException", 401, "INVALID_TOKEN", message)

UserNotFoundException ==
    BaseAPIException("UserNotFoundException", 404, "USER_NOT_FOUND",
                     "User not found")

\* isinstance(e, AuthenticationException)
IsAuthenticationException(e) ==
    e.type \in {"AuthenticationException", "InvalidCredentialsException",
                "InvalidTokenException", "TokenExpiredException"}

\* ---- core/security.py ---------------------------------------------------
\* A bcrypt hash: "$2b$", the two-digit cost, "$", then salt and digest (the
\* password stands for them).
bcrypt(password, rounds) == "$2b$" \o rounds \o "$" \o password
bcrypt_rounds(hashed_password) == SubSeq(hashed_password, 5, 6)
bcrypt_digest(hashed_password) == SubSeq(hashed_password, 8, Len(hashed_password))

\* the cost pwd_context hashes with, and the one of hashes made before it
\* was raised
default_rounds == "12"
legacy_rounds == "10"

\* pwd_context.hash(password)
hash_password(password) == bcrypt(password, default_rounds)

\* pwd_context.verify(plain_password, hashed_password): whatever the cost
verify_password(plain_password, hashed_password) ==
    IF hashed_password = None THEN FALSE
    ELSE bcrypt_digest(hashed_password) = plain_password

\* needs_rehash: False without a hash, else pwd_context.needs_update, which
\* is true of a hash whose cost is not the policy's
needs_rehash(hashed_password) ==
    IF hashed_password = None THEN FALSE
    ELSE bcrypt_rounds(hashed_password) # default_rounds

\* str(user.id)
Str(id) == ToString(id)

\* ---- auth/models.py: the schema's constraints ---------------------------
user_email_unique(us) ==
    \A u1, u2 \in us : u1.email = u2.email => u1 = u2

user_password_provider_check_unenforced(u) == TRUE

user_password_provider_check(u) ==
    \/ u.auth_provider = "email" /\ u.hashed_password # None
    \/ u.auth_provider = "google" /\ u.hashed_password = None
    \/ u.auth_provider = "mixed" /\ u.hashed_password # None

oauth_provider_user_unique_unenforced(ps) == TRUE

oauth_provider_user_unique(ps) ==
    \A p1, p2 \in ps :
        (p1.provider = p2.provider /\ p1.provider_user_id = p2.provider_user_id)
            => p1 = p2

CommitOK_unchecked(us, ps) == TRUE

\* A commit succeeds iff the rows it leaves satisfy every constraint;
\* otherwise the flush raises IntegrityError and nothing is applied.
CommitOK(us, ps) ==
    /\ user_email_unique(us)
    /\ \A u \in us : user_password_provider_check(u)
    /\ oauth_provider_user_unique(ps)

\* ---- state --------------------------------------------------------------
\* users, profiles: the committed rows.  req[p]: the request running in
\* slot p (its position, inputs, locals and result).  opsStarted bounds the
\* number of requests.
\* now: the clock, in minutes.  jwt: a token handed to the token functions
\* on their own (its input claims, the token, the outcome).  limiter: the
\* rate-limiting middleware (its clock, its buckets, its last answer, and
\* the number of requests it forwarded in the running minute and hour).
VARIABLES users, profiles, req, opsStarted, now, jwt, limiter

vars == <<users, profiles, req, opsStarted, now, jwt, limiter>>

NoUser == 0
NoToken == [id |-> None, email |-> None]
NoError == [type |-> None, status_code |-> 0, error_code |-> None, message |-> None]
NoClaims == [sub |-> None, email |-> None]
NoResponse == [endpoint |-> None, kind |-> None, status_code |-> 0, body |-> None]
NoResult == [status |-> "none", user_id |-> NoUser, claims |-> NoClaims, error |-> NoError]

Idle ==
    [op |-> "none", pc |-> "idle", email |-> None, password |-> None,
     tok |-> NoToken, attempt |-> 0, nTokenInfo |-> 0, nUserInfo |-> 0,
     sleeps |-> <<>>, last |-> NoResponse,
     vres |-> "none", verr |-> NoError, user |-> NoUser, result |-> NoResult,
     branch |-> None, newUsers |-> 0, newProfiles |-> 0]

\* ---- core/security.py: JWT tokens ----------------------------------------
MaxTime == 3
JWT_EXPIRE_MINUTES == 2
JWT_SECRET_KEY == "secret"
TOKEN_TYPE == "bearer"

\* {}, dict.update, a dict without some keys
EmptyData == [k \in {} |-> ""]
update(a, b) ==
    [k \in DOMAIN a \cup DOMAIN b |-> IF k \in DOMAIN b THEN b[k] ELSE a[k]]
Without(a, keys) == [k \in DOMAIN a \ keys |-> a[k]]

\* the empty string where a token is expected
NoAccessToken == [claims |-> EmptyData, signed_with |-> None]
\* a string that is not a JWT
MalformedToken == [claims |-> EmptyData, signed_with |-> "malformed"]

ValueError(message) ==
    [type |-> "ValueError", status_code |-> 0, error_code |-> None,
     message |-> message]
JWTError(message) ==
    [type |-> "JWTError", status_code |-> 0, error_code |-> None,
     message |-> message]

Returned(value) == [kind |-> "return", value |-> value, error |-> NoError]
Raised(e) == [kind |-> "raise", value |-> NoAccessToken, error |-> e]

\* jose.jwt.encode(claims, key, algorithm): the claims under a signature
jwt_encode(claims, key) == [claims |-> claims, signed_with |-> key]

\* jose.jwt.decode(token, key, algorithms): format, signature, then exp
jwt_decode(token, key) ==
    IF token.signed_with = "malformed"
    THEN Raised(JWTError("Not enough segments"))
    ELSE IF token.signed_with # key
    THEN Raised(JWTError("Signature verification failed."))
    ELSE IF "exp" \in DOMAIN token.claims /\ now > token.claims.exp
    THEN Raised(JWTError("Signature has expired."))
    ELSE Returned(token.claims)

create_access_token_without_type(data, expires_delta) ==
    IF data = EmptyData
    THEN Raised(ValueError("Token data cannot be empty"))
    ELSE LET expire == IF expires_delta # 0
                       THEN now + expires_delta
                       ELSE now + JWT_EXPIRE_MINUTES
         IN Returned(jwt_encode(update(data, [exp |-> expire, iat |-> now]),
                                JWT_SECRET_KEY))

\* create_access_token(data, expires_delta=None); expires_delta in minutes,
\* 0 for None (and for the falsy timedelta(0))
create_access_token(data, expires_delta) ==
    IF data = EmptyData
    THEN Raised(ValueError("Token data cannot be empty"))
    ELSE LET expire == IF expires_delta # 0
                       THEN now + expires_delta
                       ELSE now + JWT_EXPIRE_MINUTES
             to_encode == update(data, [exp |-> expire, iat |-> now,
                                        type |-> TOKEN_TYPE])
         IN Returned(jwt_encode(to_encode, JWT_SECRET_KEY))

\* decode_token: every JWTError is raised again as a plain JWTError
decode_token(token) ==
    IF token = NoAccessToken
    THEN Raised(ValueError("Token cannot be empty"))
    ELSE LET out == jwt_decode(token, JWT_SECRET_KEY)
         IN IF out.kind = "raise"
            THEN Raised(JWTError("Token validation failed: " \o out.error.message))
            ELSE out

\* verify_token: None on JWTError and on ValueError
verify_token(token) ==
    LET out == decode_token(token)
    IN IF out.kind = "raise"
       THEN [kind |-> "return_none", value |-> EmptyData, error |-> NoError]
       ELSE out

NoOutcome == [op |-> None, kind |-> "none", claims |-> EmptyData,
              token |-> NoAccessToken, error |-> NoError]
NoJwt == [pc |-> "none", data |-> EmptyData, expires_delta |-> 0,
          token |-> NoAccessToken, presented |-> None, result |-> NoOutcome]

\* ---- core/security_middleware.py: the rate limiter's state ---------------
IPs == {"10.0.0.1", "10.0.0.2"}

NoAnswer == [client_ip |-> None, path |-> None, status_code |-> 0]

\* self._minute_buckets = {} and self._hour_buckets = {} after __init__
NoBuckets == [ip \in {} |-> [key \in {} |-> 0]]

NoLimiter ==
    [clock |-> 0, minute_buckets |-> NoBuckets, hour_buckets |-> NoBuckets,
     last |-> NoAnswer,
     forwarded_minute |-> [ip \in IPs |-> 0],
     forwarded_hour |-> [ip \in IPs |-> 0]]

Init ==
    /\ users = {}
    /\ profiles = {}
    /\ req = [p \in Procs |-> Idle]
    /\ opsStarted = 0
    /\ now = 0
    /\ jwt = NoJwt
    /\ limiter = NoLimiter

\* ---- helpers on the store ------------------------------------------------
ProfilesFor_any_subject(provider, subject) ==
    {pr \in profiles : pr.provider = provider}

\* self.db.query(OAuthProfile).filter(provider == .., provider_user_id == ..)
ProfilesFor(provider, subject) ==
    {pr \in profiles : pr.provider = provider /\ pr.provider_user_id = subject}

\* self.db.query(User).filter(User.email == email.lower().strip())
UsersByEmail(email) == {u \in users : u.email = Lower(email)}

\* get_active_user_by_email
ActiveUsersByEmail(email) == {u \in UsersByEmail(email) : u.is_active}

\* email_exists
email_exists(email) == UsersByEmail(email) # {}

UserById(id) == CHOOSE u \in users : u.id = id

\* uuid.uuid4(): an id no row has
NewUserId == Cardinality(users) + 1
NewProfileId == Cardinality(profiles) + 1

\* ---- slot bookkeeping ---------------------------------------------------
\* A request inside the token validator, or holding its finished response,
\* reads and writes nothing the other requests share: its steps commute with
\* theirs.  Such steps are scheduled without interleaving; every interleaving
\* of the steps that query or commit the store is kept.
Private(q) == req[q].pc \in {"verify_token_info", "get_user_info", "done"}

Turn(p) == \A q \in Procs \ {p} : ~Private(q)

\* a new request takes the lowest free slot
Free(p) ==
    /\ Turn(p)
    /\ req[p].pc = "idle"
    /\ \A q \in Procs : q < p => req[q].pc # "idle"

\* request p is at statement pc
At(p, pc) == Turn(p) /\ req[p].pc = pc

\* slot p moves to r; nothing is committed
Step(p, r) ==
    /\ req' = [req EXCEPT ![p] = r]
    /\ UNCHANGED <<users, profiles, now, jwt, limiter>>

\* slot p moves to r and its transaction commits the rows us, ps
Commit(p, r, us, ps) ==
    /\ users' = us
    /\ profiles' = ps
    /\ req' = [req EXCEPT ![p] = r]
    /\ UNCHANGED <<now, jwt, limiter>>

\* The request is over: its inputs and locals are gone, what stays until the
\* response is sent is the outcome and the record of what the request did.
Finished(r, result) ==
    [Idle EXCEPT !.op = r.op, !.pc = "done", !.result = result,
                 !.attempt = r.attempt, !.nTokenInfo = r.nTokenInfo,
                 !.nUserInfo = r.nUserInfo, !.sleeps = r.sleeps,
                 !.last = r.last, !.vres = r.vres, !.verr = r.verr,
                 !.branch = r.branch, !.newUsers = r.newUsers,
                 !.newProfiles = r.newProfiles]

Failed(r, e) ==
    Finished(r, [status |-> "error", user_id |-> NoUser,
                 claims |-> NoClaims, error |-> e])

Succeeded(r, uid, claims) ==
    Finished(r, [status |-> "ok", user_id |-> uid,
                 claims |-> claims, error |-> NoError])

\* ---- auth/oauth_service.py: the token validator -------------------------
max_retries == 3
base_delay == 1

RECURSIVE Pow2(_)
Pow2(n) == IF n = 0 THEN 1 ELSE 2 * Pow2(n - 1)

\* What http_client.get can produce: a response, or httpx.RequestError.
\* body: the scope of a tokeninfo answer, verified_email of a userinfo one.
TokenInfoResponses ==
    {[kind |-> "response", status_code |-> 200, body |-> "email profile openid"],
     [kind |-> "response", status_code |-> 200, body |-> "email openid"],
     [kind |-> "response", status_code |-> 200, body |-> "profile openid"],
     [kind |-> "response", status_code |-> 401, body |-> None],
     [kind |-> "response", status_code |-> 500, body |-> None],
     [kind |-> "RequestError", status_code |-> 0, body |-> None]}

UserInfoResponses ==
    {[kind |-> "response", status_code |-> 200, body |-> "verified"],
     [kind |-> "response", status_code |-> 200, body |-> "unverified"],
     [kind |-> "response", status_code |-> 401, body |-> None],
     [kind |-> "response", status_code |-> 403, body |-> None],
     [kind |-> "response", status_code |-> 500, body |-> None],
     [kind |-> "RequestError", status_code |-> 0, body |-> None]}

\* "word" in scope, for the scope strings above
InScope(word, scope) ==
    \/ word = "email" /\ scope \in {"email profile openid", "email openid"}
    \/ word = "profile" /\ scope \in {"email profile openid", "profile openid"}

\* the provider call a request made last
Called(endpoint, resp) ==
    [endpoint |-> endpoint, kind |-> resp.kind, status_code |-> resp.status_code,
     body |-> resp.body]

Return == [kind |-> "return", error |-> NoError, delay |-> 0]
Raise(e) == [kind |-> "raise", error |-> e, delay |-> 0]
Retry(d) == [kind |-> "retry", error |-> NoError, delay |-> d]

\* httpx exceptions
RequestError ==
    [type |-> "RequestError", status_code |-> 0, error_code |-> None, message |-> None]
HTTPStatusError(status_code) ==
    [type |-> "HTTPStatusError", status_code |-> status_code, error_code |-> None,
     message |-> None]

verify_token_info_raise_for_status(resp) ==
    IF resp.kind = "RequestError" \/ resp.status_code # 200
    THEN Raise(RequestError)
    ELSE Return

\* _verify_token_info: the tokeninfo call, the status check, the scope
\* check; `except httpx.RequestError` is its only handler.
verify_token_info(resp) ==
    IF resp.kind = "RequestError"
    THEN Raise(AuthenticationException("Unable to verify Google token"))
    ELSE IF resp.status_code # 200
    THEN Raise(AuthenticationException("Invalid Google token"))
    ELSE IF ~InScope("email", resp.body) \/ ~InScope("profile", resp.body)
    THEN Raise(AuthenticationException("Insufficient permissions from Google"))
    ELSE Return

\* _validate_google_token, try block after _verify_token_info returned: the
\* userinfo call, the 401 check, raise_for_status(), the verified_email check.
get_user_info(resp) ==
    IF resp.kind = "RequestError" THEN Raise(RequestError)
    ELSE IF resp.status_code = 401
    THEN Raise(AuthenticationException("Invalid or expired Google token"))
    ELSE IF resp.status_code >= 400 THEN Raise(HTTPStatusError(resp.status_code))
    ELSE IF resp.body # "verified"
    THEN Raise(AuthenticationException("Google account email must be verified"))
    ELSE Return

validate_google_token_except_retry_all(e, attempt) ==
    IF attempt < max_retries - 1
    THEN Retry(base_delay * Pow2(attempt))
    ELSE Raise(e)

\* _validate_google_token, the except clauses of the retry loop: what an
\* exception raised in the try block of iteration `attempt` leads to.
validate_google_token_except(e, attempt) ==
    IF e.type = "HTTPStatusError"
    THEN IF e.status_code = 401
         THEN Raise(AuthenticationException("Invalid Google OAuth token"))
         ELSE IF e.status_code >= 500 /\ attempt < max_retries - 1
         THEN Retry(base_delay * Pow2(attempt))
         ELSE Raise(AuthenticationException("Failed to validate Google token"))
    ELSE IF e.type = "RequestError"
    THEN IF attempt < max_retries - 1
         THEN Retry(base_delay * Pow2(attempt))
         ELSE Raise(AuthenticationException("Unable to connect to Google services"))
    ELSE Raise(e)

\* one pass through the try/except of the loop
LoopOutcome(out, attempt) ==
    IF out.kind = "raise" THEN validate_google_token_except(out.error, attempt)
    ELSE out

\* authenticate_with_google: except AuthenticationException: raise;
\* except Exception: raise AuthenticationException("... server error")
authenticate_with_google_except(e) ==
    IF IsAuthenticationException(e) THEN e
    ELSE AuthenticationException("Authentication failed due to server error")

\* _find_or_create_oauth_user: except Exception
find_or_create_oauth_user_except(e) ==
    ValidationException("Failed to process user information")

\* POST /auth/google arrives: authenticate_with_google starts.
AuthenticateWithGoogle(p) ==
    /\ Free(p)
    /\ opsStarted < MaxOps
    /\ opsStarted' = opsStarted + 1
    /\ \E tok \in GoogleTokens :
        Step(p, [Idle EXCEPT !.op = "google", !.pc = "verify_token_info",
                             !.tok = tok])

\* The validator is over with an exception: authenticate_with_google maps it.
ValidatorRaised(r, e) ==
    Failed([r EXCEPT !.vres = "raised", !.verr = e],
           authenticate_with_google_except(e))

NextAttempt_without_sleep(r, delay) ==
    [r EXCEPT !.pc = "verify_token_info", !.attempt = @ + 1]

\* `continue`: sleep, then the next iteration of `for attempt in
\* range(max_retries)`; the statement after the loop when there is none.
NextAttempt(r, delay) ==
    IF r.attempt + 1 < max_retries
    THEN [r EXCEPT !.pc = "verify_token_info", !.sleeps = Append(@, delay),
                   !.attempt = @ + 1]
    ELSE ValidatorRaised([r EXCEPT !.sleeps = Append(@, delay)],
             AuthenticationException("Failed to validate Google token after retries"))

\* A loop iteration starts: the tokeninfo call of _verify_token_info.
VerifyTokenInfo(p) ==
    /\ At(p, "verify_token_info")
    /\ UNCHANGED opsStarted
    /\ \E resp \in TokenInfoResponses :
        LET r == [req[p] EXCEPT !.nTokenInfo = @ + 1,
                                !.last = Called("tokeninfo", resp)]
            out == LoopOutcome(verify_token_info(resp), req[p].attempt)
        IN CASE out.kind = "return" -> Step(p, [r EXCEPT !.pc = "get_user_info"])
             [] out.kind = "retry" -> Step(p, NextAttempt(r, out.delay))
             [] OTHER -> Step(p, ValidatorRaised(r, out.error))

\* The iteration goes on: the userinfo call; a retry sleeps and starts over.
GetUserInfo(p) ==
    /\ At(p, "get_user_info")
    /\ UNCHANGED opsStarted
    /\ \E resp \in UserInfoResponses :
        LET r == [req[p] EXCEPT !.nUserInfo = @ + 1,
                                !.last = Called("userinfo", resp)]
            out == LoopOutcome(get_user_info(resp), req[p].attempt)
        IN CASE out.kind = "return" ->
                  Step(p, [r EXCEPT !.pc = "find_oauth_profile", !.vres = "returned"])
             [] out.kind = "retry" -> Step(p, NextAttempt(r, out.delay))
             [] OTHER -> Step(p, ValidatorRaised(r, out.error))

\* ---- auth/repository.py: the identity resolver --------------------------
GoogleClaims_email_as_sub(u) == [sub |-> u.email, email |-> u.email]

\* create_access_token(data={"sub": str(user.id), "email": user.email})
GoogleClaims(u) ==
    create_access_token([sub |-> Str(u.id), email |-> u.email], 0).value.claims

\* what every failure inside _find_or_create_oauth_user reaches the caller as
ResolverFailure(e) ==
    authenticate_with_google_except(find_or_create_oauth_user_except(e))

\* _validate_google_token has returned: its locals are gone
Resolving(r) ==
    [r EXCEPT !.attempt = 0, !.nTokenInfo = 0, !.nUserInfo = 0, !.sleeps = <<>>,
              !.last = NoResponse]

\* authenticate_oauth_user, first query: the profile of this subject and
\* its owner (fast path).
FindOAuthProfile(p) ==
    /\ At(p, "find_oauth_profile")
    /\ UNCHANGED opsStarted
    /\ LET prs == ProfilesFor("google", req[p].tok.id)
           r == Resolving(req[p])
       IN IF prs = {}
          THEN Step(p, [r EXCEPT !.pc = "find_user_by_email"])
          ELSE \E pr \in prs :
                 LET u == UserById(pr.user_id)
                 IN IF u.is_active
                    THEN Step(p, Succeeded([r EXCEPT !.branch = "fast"],
                                           u.id, GoogleClaims(u)))
                    ELSE Step(p, [r EXCEPT !.pc = "find_user_by_email"])

\* authenticate_oauth_user, second query: an active user with this e-mail;
\* none makes it return None and create_oauth_user is called.
FindUserByEmail(p) ==
    /\ At(p, "find_user_by_email")
    /\ UNCHANGED opsStarted
    /\ LET us == ActiveUsersByEmail(req[p].tok.email)
       IN IF us = {}
          THEN Step(p, [req[p] EXCEPT !.pc = "create_oauth_user"])
          ELSE \E u \in us :
                 Step(p, [req[p] EXCEPT !.pc = "link_oauth_profile", !.user = u.id])

\* the OAuthProfile row both branches insert (key columns)
NewOAuthProfile(user_id, tok) ==
    [id |-> NewProfileId, user_id |-> user_id, provider |-> "google",
     provider_user_id |-> tok.id]

PromoteToMixed_skipped(us, user_id) == us

\* user.auth_provider = AuthProvider.MIXED on the loaded user
PromoteToMixed(us, user_id) ==
    {IF u.id = user_id THEN [u EXCEPT !.auth_provider = "mixed"] ELSE u : u \in us}

\* authenticate_oauth_user, linking: add the profile, promote the user,
\* commit; a failed commit is rolled back and raised as DatabaseException.
LinkOAuthProfile(p) ==
    /\ At(p, "link_oauth_profile")
    /\ UNCHANGED opsStarted
    /\ LET us == PromoteToMixed(users, req[p].user)
           ps == profiles \cup {NewOAuthProfile(req[p].user, req[p].tok)}
       IN IF CommitOK(us, ps)
          THEN LET u == CHOOSE x \in us : x.id = req[p].user
               IN Commit(p, Succeeded([req[p] EXCEPT !.branch = "link",
                                                     !.newProfiles = @ + 1],
                                      u.id, GoogleClaims(u)),
                         us, ps)
          ELSE Step(p, Failed([req[p] EXCEPT !.branch = "link"],
                              ResolverFailure(DatabaseException("OAuth authentication"))))

\* create_oauth_user: the e-mail existence check
CreateOAuthUser(p) ==
    /\ At(p, "create_oauth_user")
    /\ UNCHANGED opsStarted
    /\ IF email_exists(req[p].tok.email)
       THEN Step(p, Failed([req[p] EXCEPT !.branch = "new"],
                           ResolverFailure(EmailExistsException)))
       ELSE Step(p, [req[p] EXCEPT !.pc = "create_oauth_user_commit"])

\* the User row of an OAuth-only account
NewOAuthUser(tok) ==
    [id |-> NewUserId, email |-> Lower(tok.email), hashed_password |-> None,
     auth_provider |-> "google", is_active |-> TRUE]

\* except IntegrityError in create_user / create_oauth_user: the text of the
\* error names the statement, and both INSERTs have an e-mail column.
on_IntegrityError == EmailExistsException

rollback_keeps_flushed(committed, flushed) == flushed

\* self.db.rollback(): the rows the session flushed but did not commit are
\* discarded, the table is as committed
rollback(committed, flushed) == committed

\* create_oauth_user: add the user and flush (the INSERT of the user runs
\* inside the transaction), add the profile and commit; an IntegrityError
\* of the flush or of the commit is answered by rollback.
CreateOAuthUserCommit(p) ==
    /\ At(p, "create_oauth_user_commit")
    /\ UNCHANGED opsStarted
    /\ LET u == NewOAuthUser(req[p].tok)
           flushed == users \cup {u}
           ps == profiles \cup {NewOAuthProfile(u.id, req[p].tok)}
       IN IF ~CommitOK(flushed, profiles)
          THEN Commit(p, Failed([req[p] EXCEPT !.branch = "new"],
                                ResolverFailure(on_IntegrityError)),
                      rollback(users, users), profiles)
          ELSE IF ~CommitOK(flushed, ps)
          THEN Commit(p, Failed([req[p] EXCEPT !.branch = "new_rollback"],
                                ResolverFailure(on_IntegrityError)),
                      rollback(users, flushed), profiles)
          ELSE Commit(p, Succeeded([req[p] EXCEPT !.branch = "new",
                                                  !.newUsers = @ + 1,
                                                  !.newProfiles = @ + 1],
                                   u.id, GoogleClaims(u)),
                      flushed, ps)

\* _create_token_for_user(user, auth_method): sub, email, auth_method,
\* auth_provider (and the user's name, which no decision depends on)
create_token_for_user(user, auth_method) ==
    create_access_token([sub |-> Str(user.id), email |-> user.email,
                         auth_method |-> auth_method,
                         auth_provider |-> user.auth_provider], 0)

PasswordClaims(u) == create_token_for_user(u, "password").value.claims

\* what a finished register_user call is remembered by: its registration_data
Registered(r, registration_data) ==
    [r EXCEPT !.email = Lower(registration_data.email),
              !.password = registration_data.password]

\* create_user has returned or raised inside register_new_user (the user) or
\* inside AuthenticationService.register_user (the user and a token)
CreateUserFailed(r, e) ==
    IF r.op = "register_user"
    THEN Registered(Failed(r, e), r)
    ELSE Failed(r, e)

CreateUserSucceeded(r, u) ==
    IF r.op = "register_user"
    THEN Registered(Succeeded(r, u.id, PasswordClaims(u)), r)
    ELSE Succeeded(r, u.id, NoClaims)

\* ---- password registration ----------------------------------------------
\* register_new_user(db, user_data): validate_registration_data
RegisterNewUser(p) ==
    /\ Free(p)
    /\ opsStarted < MaxOps
    /\ opsStarted' = opsStarted + 1
    /\ \E email \in RawEmails, password \in Passwords :
        LET r == [Idle EXCEPT !.op = "register_new_user", !.email = email,
                              !.password = password]
        IN IF email_exists(email)
           THEN Step(p, Failed(r, EmailExistsException))
           ELSE Step(p, [r EXCEPT !.pc = "create_user"])

\* create_user: the e-mail existence check
CreateUser(p) ==
    /\ At(p, "create_user")
    /\ UNCHANGED opsStarted
    /\ IF email_exists(req[p].email)
       THEN Step(p, CreateUserFailed(req[p], EmailExistsException))
       ELSE Step(p, [req[p] EXCEPT !.pc = "create_user_commit"])

NewUser(email, password, auth_provider) ==
    [id |-> NewUserId, email |-> Lower(email),
     hashed_password |-> hash_password(password),
     auth_provider |-> auth_provider, is_active |-> TRUE]

\* create_user: hash, insert, commit
CreateUserCommit(p) ==
    /\ At(p, "create_user_commit")
    /\ UNCHANGED opsStarted
    /\ LET u == NewUser(req[p].email, req[p].password, "email")
           us == users \cup {u}
       IN IF CommitOK(us, profiles)
          THEN Commit(p, CreateUserSucceeded([req[p] EXCEPT !.newUsers = @ + 1], u),
                      us, profiles)
          ELSE Step(p, CreateUserFailed(req[p], on_IntegrityError))

\* ---- core/security.py: validate_password_strength ------------------------
MIN_PASSWORD_LENGTH == 8
MAX_PASSWORD_LENGTH == 128

UpperCase == "ABCDEFGHIJKLMNOPQRSTUVWXYZ"
LowerCase == "abcdefghijklmnopqrstuvwxyz"
Digits == "0123456789"

\* the characters of a string; c in s; pattern in s
CharsOf(s) == {SubSeq(s, i, i) : i \in 1..Len(s)}
isalpha(c) == c \in CharsOf(UpperCase) \cup CharsOf(LowerCase)
isdigit(c) == c \in CharsOf(Digits)
Contains(pattern, s) ==
    \E i \in 1..(Len(s) - Len(pattern) + 1) :
        SubSeq(s, i, i + Len(pattern) - 1) = pattern

\* str.lower()
RECURSIVE lower(_)
lower(s) ==
    IF s = "" THEN ""
    ELSE LET c == SubSeq(s, 1, 1)
             l == IF c \in CharsOf(UpperCase)
                  THEN LET i == CHOOSE j \in 1..Len(UpperCase) :
                                    SubSeq(UpperCase, j, j) = c
                       IN SubSeq(LowerCase, i, i)
                  ELSE c
         IN l \o lower(SubSeq(s, 2, Len(s)))

weak_patterns == {"password", "12345", "qwerty", "admin", "letmein"}

\* validate_password_strength returns {"valid": .., "message": ..}
validate_password_strength(password) ==
    IF password = ""
    THEN [valid |-> FALSE, message |-> "Password cannot be empty"]
    ELSE IF Len(password) < MIN_PASSWORD_LENGTH
    THEN [valid |-> FALSE,
          message |-> "Password must be at least 8 characters long"]
    ELSE IF Len(password) > MAX_PASSWORD_LENGTH
    THEN [valid |-> FALSE,
          message |-> "Password cannot exceed 128 characters"]
    ELSE IF ~\E c \in CharsOf(password) : isalpha(c)
    THEN [valid |-> FALSE,
          message |-> "Password must contain at least one letter"]
    ELSE IF ~\E c \in CharsOf(password) : isdigit(c)
    THEN [valid |-> FALSE,
          message |-> "Password must contain at least one number"]
    ELSE IF \E pattern \in weak_patterns : Contains(pattern, lower(password))
    THEN [valid |-> FALSE,
          message |-> "Password contains common weak patterns"]
    ELSE [valid |-> TRUE, message |-> "Password meets security requirements"]

\* ---- auth/service.py ----------------------------------------------------

\* create_validation_exception(field_name, ..): ValidationException with
\* message "Validation failed for field: <field_name>"
create_validation_exception(field_name) ==
    ValidationException("Validation failed for field: " \o field_name)

service_validate_password_strength_skipped(password) == Return

\* _validate_password_strength reads validation_result["is_valid"]
service_validate_password_strength(password) ==
    LET validation_result == validate_password_strength(password)
    IN IF "is_valid" \in DOMAIN validation_result
       THEN IF validation_result["is_valid"] THEN Return
            ELSE Raise(create_validation_exception("password"))
       ELSE Raise(KeyError("is_valid"))

\* register_user: except (EmailExists, Validation, Database): raise;
\* except Exception: raise DatabaseException("user registration")
register_user_except(e) ==
    IF e.type \in {"EmailExistsException", "ValidationException", "DatabaseException"}
    THEN e ELSE DatabaseException("user registration")

\* AuthenticationService.register_user: step 1 (password strength), step 2
\* (validate_registration_data: e-mail existence), then create_user
RegisterUser(p) ==
    /\ Free(p)
    /\ opsStarted < MaxOps
    /\ opsStarted' = opsStarted + 1
    /\ \E email \in RawEmails, password \in Passwords \cup WeakPasswords :
        LET registration_data == [email |-> email, password |-> password]
            r == [Idle EXCEPT !.op = "register_user", !.email = email,
                              !.password = password]
            out == service_validate_password_strength(password)
        IN IF out.kind = "raise"
           THEN Step(p, Registered(Failed(r, register_user_except(out.error)),
                                   registration_data))
           ELSE IF email_exists(email)
           THEN Step(p, Registered(Failed(r, register_user_except(EmailExistsException)),
                                   registration_data))
           ELSE Step(p, [r EXCEPT !.pc = "create_user"])

\* AuthenticationService.authenticate_user over repository.authenticate_user,
\* which returns None when no active user has the e-mail, when the user has
\* no password hash, and when the password does not verify; the service
\* raises InvalidCredentialsException `if not user`.
AuthenticateUser(p) ==
    /\ Free(p)
    /\ opsStarted < MaxOps
    /\ opsStarted' = opsStarted + 1
    /\ \E email \in RawEmails, password \in Passwords :
        LET r == [Idle EXCEPT !.op = "authenticate_user"]
            us == ActiveUsersByEmail(email)
        IN IF us = {}
           THEN Step(p, Failed([r EXCEPT !.branch = "no_user"],
                               InvalidCredentialsException))
           ELSE \E u \in us :
                  IF u.hashed_password = None
                  THEN Step(p, Failed([r EXCEPT !.branch = "no_password"],
                                      InvalidCredentialsException))
                  ELSE IF verify_password(password, u.hashed_password)
                  THEN Step(p, Succeeded([r EXCEPT !.branch = "login"],
                                         u.id, PasswordClaims(u)))
                  ELSE Step(p, Failed([r EXCEPT !.branch = "wrong_password"],
                                      InvalidCredentialsException))

\* AuthenticationService.deactivate_account over repository.deactivate_user:
\* user.is_active = False, commit
DeactivateUser(p) ==
    /\ Free(p)
    /\ opsStarted < MaxOps
    /\ opsStarted' = opsStarted + 1
    /\ \E user_id \in 1..NewUserId :
        LET r == [Idle EXCEPT !.op = "deactivate_account"]
            found == {u \in users : u.id = user_id}
        IN IF found = {}
           THEN Step(p, Failed(r, UserNotFoundException))
           ELSE Commit(p, Succeeded(r, user_id, NoClaims),
                       {IF u.id = user_id THEN [u EXCEPT !.is_active = FALSE]
                        ELSE u : u \in users},
                       profiles)

\* the response is sent and the slot is free again
Respond(p) ==
    /\ At(p, "done")
    /\ Step(p, Idle)
    /\ UNCHANGED opsStarted

Next ==
    \E p \in Procs :
        \/ AuthenticateWithGoogle(p)
        \/ VerifyTokenInfo(p)
        \/ GetUserInfo(p)
        \/ FindOAuthProfile(p)
        \/ FindUserByEmail(p)
        \/ LinkOAuthProfile(p)
        \/ CreateOAuthUser(p)
        \/ CreateOAuthUserCommit(p)
        \/ RegisterNewUser(p)
        \/ CreateUser(p)
        \/ CreateUserCommit(p)
        \/ RegisterUser(p)
        \/ AuthenticateUser(p)
        \/ Respond(p)

Spec == Init /\ [][Next]_vars

\* ---- account management ------------------------------------------------
\* The store after one first Google login (subject g1, a@x.com), with the
\* account-management operation available next to the public ones.
InitAdmin ==
    /\ users = {[id |-> 1, email |-> "a@x.com", hashed_password |-> None,
                 auth_provider |-> "google", is_active |-> TRUE]}
    /\ profiles = {[id |-> 1, user_id |-> 1, provider |-> "google",
                    provider_user_id |-> "g1"]}
    /\ req = [p \in Procs |-> Idle]
    /\ opsStarted = 0
    /\ now = 0
    /\ jwt = NoJwt
    /\ limiter = NoLimiter

NextAdmin ==
    \/ Next
    \/ \E p \in Procs : DeactivateUser(p)

SpecAdmin == InitAdmin /\ [][NextAdmin]_vars

\* ---- a store with an older hash -----------------------------------------
\* One password user whose hash was made under the lower cost.
InitLegacy ==
    /\ users = {[id |-> 1, email |-> "a@x.com",
                 hashed_password |-> bcrypt("abcdefg1", legacy_rounds),
                 auth_provider |-> "email", is_active |-> TRUE]}
    /\ profiles = {}
    /\ req = [p \in Procs |-> Idle]
    /\ opsStarted = 0
    /\ now = 0
    /\ jwt = NoJwt
    /\ limiter = NoLimiter

SpecLegacy == InitLegacy /\ [][Next]_vars

\* ---- the token functions on their own -----------------------------------
\* input claim sets: any of sub (an active user, an inactive user, nobody),
\* email, auth_method, and the keys create_access_token writes itself
TokenData ==
    {update(update(update(update(a, b), c), d), e) :
        a \in {EmptyData, [sub |-> "1"], [sub |-> "2"], [sub |-> "7"]},
        b \in {EmptyData, [email |-> "a@x.com"]},
        c \in {EmptyData, [auth_method |-> "google_oauth"]},
        d \in {EmptyData, [type |-> "refresh"]},
        e \in {EmptyData, [exp |-> 0]}}

\* expires_delta in minutes; 0 is None
ExpiresDeltas == {0, 1}

\* A store with an active password user (id 1) and a deactivated Google
\* user (id 2); one claim set and one expires_delta to issue a token from.
InitToken ==
    /\ users = {[id |-> 1, email |-> "a@x.com",
                 hashed_password |-> hash_password("abcdefg1"),
                 auth_provider |-> "email", is_active |-> TRUE],
                [id |-> 2, email |-> "b@x.com", hashed_password |-> None,
                 auth_provider |-> "google", is_active |-> FALSE]}
    /\ profiles = {[id |-> 1, user_id |-> 2, provider |-> "google",
                    provider_user_id |-> "g2"]}
    /\ req = [p \in Procs |-> Idle]
    /\ opsStarted = 0
    /\ now = 0
    /\ \E data \in TokenData, expires_delta \in ExpiresDeltas :
        jwt = [NoJwt EXCEPT !.pc = "start", !.data = data,
                            !.expires_delta = expires_delta]
    /\ limiter = NoLimiter

Outcome(op, out) ==
    [op |-> op, kind |-> out.kind,
     claims |-> IF op # "refresh_token" /\ out.kind = "return"
                THEN out.value ELSE EmptyData,
     token |-> IF op = "refresh_token" /\ out.kind = "return"
               THEN out.value ELSE NoAccessToken,
     error |-> out.error]

\* token = create_access_token(data, expires_delta)
CreateAccessToken ==
    /\ jwt.pc = "start"
    /\ LET out == create_access_token(jwt.data, jwt.expires_delta)
       IN IF out.kind = "raise"
          THEN jwt' = [jwt EXCEPT !.pc = "done",
                                  !.result = [NoOutcome EXCEPT
                                                !.op = "create_access_token",
                                                !.kind = "raise",
                                                !.error = out.error]]
          ELSE jwt' = [jwt EXCEPT !.pc = "issued", !.token = out.value,
                                  !.presented = "issued"]
    /\ UNCHANGED <<users, profiles, req, opsStarted, now, limiter>>

\* Somebody presents another string in place of the token: its claims under
\* another key, its claims with a later exp under another key, a string that
\* is no JWT, the empty string.
Forge ==
    /\ jwt.pc = "issued"
    /\ jwt.presented = "issued"
    /\ \/ jwt' = [jwt EXCEPT !.presented = "forged",
                              !.token = jwt_encode(@.claims, "other")]
       \/ jwt' = [jwt EXCEPT !.presented = "forged",
                              !.token = jwt_encode(update(@.claims,
                                                          [exp |-> MaxTime + 1]),
                                                   "other")]
       \/ jwt' = [jwt EXCEPT !.presented = "malformed", !.token = MalformedToken]
       \/ jwt' = [jwt EXCEPT !.presented = "empty", !.token = NoAccessToken]
    /\ UNCHANGED <<users, profiles, req, opsStarted, now, limiter>>

\* a minute passes
Tick ==
    /\ jwt.pc \in {"start", "issued"}
    /\ now < MaxTime
    /\ now' = now + 1
    /\ UNCHANGED <<users, profiles, req, opsStarted, jwt, limiter>>

DecodeToken ==
    /\ jwt.pc = "issued"
    /\ jwt' = [jwt EXCEPT !.pc = "done",
                          !.result = Outcome("decode_token", decode_token(jwt.token))]
    /\ UNCHANGED <<users, profiles, req, opsStarted, now, limiter>>

VerifyToken ==
    /\ jwt.pc = "issued"
    /\ jwt' = [jwt EXCEPT !.pc = "done",
                          !.result = Outcome("verify_token", verify_token(jwt.token))]
    /\ UNCHANGED <<users, profiles, req, opsStarted, now, limiter>>

\* refresh_token: except (InvalidToken, TokenExpired, UserNotFound,
\* Authentication): raise; except Exception: DatabaseException
refresh_token_except(e) ==
    IF IsAuthenticationException(e) \/ e.type = "UserNotFoundException"
    THEN e ELSE DatabaseException("token refresh")

\* AuthenticationService.refresh_token(current_token): the try block
refresh_token_try(current_token) ==
    LET token_data == verify_token(current_token)
    IN IF token_data.kind = "return_none"
       THEN Raised(InvalidTokenException("Cannot decode token for refresh"))
       ELSE IF "sub" \notin DOMAIN token_data.value
       THEN Raised(InvalidTokenException("Token missing user ID"))
       ELSE LET found == {u \in users : Str(u.id) = token_data.value.sub}
            IN IF found = {}
               THEN Raised(UserNotFoundException)
               ELSE LET user == CHOOSE u \in found : TRUE
                        auth_method ==
                            IF "auth_method" \in DOMAIN token_data.value
                            THEN token_data.value.auth_method ELSE "password"
                    IN IF ~user.is_active
                       THEN Raised(AuthenticationException("User account is inactive"))
                       ELSE create_token_for_user(user, auth_method)

refresh_token(current_token) ==
    LET out == refresh_token_try(current_token)
    IN IF out.kind = "raise" THEN Raised(refresh_token_except(out.error))
       ELSE out

RefreshToken ==
    /\ jwt.pc = "issued"
    /\ jwt' = [jwt EXCEPT !.pc = "done",
                          !.result = Outcome("refresh_token", refresh_token(jwt.token))]
    /\ UNCHANGED <<users, profiles, req, opsStarted, now, limiter>>

NextToken ==
    \/ CreateAccessToken
    \/ Forge
    \/ Tick
    \/ DecodeToken
    \/ VerifyToken
    \/ RefreshToken

SpecToken == InitToken /\ [][NextToken]_vars

\* ---- a session across deactivation ---------------------------------------
\* _create_user_response(user): the fields a decision depends on
create_user_response(user) ==
    [id |-> Str(user.id), email |-> user.email,
     auth_provider |-> user.auth_provider]

\* validate_token: except (InvalidToken, TokenExpired, UserNotFound,
\* Authentication): raise; except Exception: DatabaseException
validate_token_except(e) ==
    IF IsAuthenticationException(e) \/ e.type = "UserNotFoundException"
    THEN e ELSE DatabaseException("token validation")

validate_token_try_without_active_check(token) ==
    LET token_data == verify_token(token)
    IN IF token_data.kind = "return_none"
       THEN Raised(InvalidTokenException("Invalid or malformed token"))
       ELSE IF "sub" \notin DOMAIN token_data.value
       THEN Raised(InvalidTokenException("Token missing user ID"))
       ELSE LET found == {u \in users : Str(u.id) = token_data.value.sub}
            IN IF found = {}
               THEN Raised(UserNotFoundException)
               ELSE Returned(create_user_response(CHOOSE u \in found : TRUE))

\* AuthenticationService.validate_token(token): the try block
validate_token_try(token) ==
    LET token_data == verify_token(token)
    IN IF token_data.kind = "return_none"
       THEN Raised(InvalidTokenException("Invalid or malformed token"))
       ELSE IF "sub" \notin DOMAIN token_data.value
       THEN Raised(InvalidTokenException("Token missing user ID"))
       ELSE LET found == {u \in users : Str(u.id) = token_data.value.sub}
            IN IF found = {}
               THEN Raised(UserNotFoundException)
               ELSE LET user == CHOOSE u \in found : TRUE
                    IN IF ~user.is_active
                       THEN Raised(AuthenticationException("User account is inactive"))
                       ELSE Returned(create_user_response(user))

validate_token(token) ==
    LET out == validate_token_try(token)
    IN IF out.kind = "raise" THEN Raised(validate_token_except(out.error))
       ELSE out

\* get_validated_token over get_bearer_token, then get_required_token
get_required_token(token) ==
    IF token = NoAccessToken
    THEN Raised(AuthenticationException("Authentication required"))
    ELSE IF verify_token(token).kind = "return_none"
    THEN Raised(InvalidTokenException("Invalid or expired token"))
    ELSE Returned(token)

\* get_current_user: except AuthenticationException: raise; except
\* Exception: raise AuthenticationException("Authentication service error")
get_current_user_except(e) ==
    IF IsAuthenticationException(e) THEN e
    ELSE AuthenticationException("Authentication service error")

\* get_current_user(db, token = Depends(get_required_token)): the user id of
\* the token, then the query for the active user with that id
get_current_user(token) ==
    LET required == get_required_token(token)
    IN IF required.kind = "raise" THEN required
       ELSE LET payload == verify_token(token)
            IN IF payload.kind = "return_none" \/ "sub" \notin DOMAIN payload.value
               THEN Raised(InvalidTokenException("Invalid token payload"))
               ELSE LET found == {u \in users : /\ Str(u.id) = payload.value.sub
                                                /\ u.is_active}
                    IN IF found = {}
                       THEN Raised(get_current_user_except(UserNotFoundException))
                       ELSE Returned(create_user_response(CHOOSE u \in found : TRUE))

ValidateToken ==
    /\ jwt.pc = "issued"
    /\ jwt' = [jwt EXCEPT !.pc = "done",
                          !.result = Outcome("validate_token", validate_token(jwt.token))]
    /\ UNCHANGED <<users, profiles, req, opsStarted, now, limiter>>

GetCurrentUser ==
    /\ jwt.pc = "issued"
    /\ jwt' = [jwt EXCEPT !.pc = "done",
                          !.result = Outcome("get_current_user",
                                             get_current_user(jwt.token))]
    /\ UNCHANGED <<users, profiles, req, opsStarted, now, limiter>>

\* the client, whatever the answer was, presents its token again
Present ==
    /\ jwt.pc = "done"
    /\ jwt.token # NoAccessToken
    /\ jwt' = [jwt EXCEPT !.pc = "issued", !.result = NoOutcome]
    /\ UNCHANGED <<users, profiles, req, opsStarted, now, limiter>>

\* repository.reactivate_user: user.is_active = True, commit
ReactivateUser(p) ==
    /\ Free(p)
    /\ opsStarted < MaxOps
    /\ opsStarted' = opsStarted + 1
    /\ \E user_id \in 1..NewUserId :
        LET r == [Idle EXCEPT !.op = "reactivate_user"]
            found == {u \in users : u.id = user_id}
        IN IF found = {}
           THEN Step(p, Failed(r, UserNotFoundException))
           ELSE Commit(p, Succeeded(r, user_id, NoClaims),
                       {IF u.id = user_id THEN [u EXCEPT !.is_active = TRUE]
                        ELSE u : u \in users},
                       profiles)

\* the claims _create_token_for_user gives create_access_token
SessionData(user, auth_method) ==
    [sub |-> Str(user.id), email |-> user.email, auth_method |-> auth_method,
     auth_provider |-> user.auth_provider]

\* A store with a password user (id 1) and a Google user (id 2), both
\* active, so that every e-mail of a login belongs to an account; one of the
\* two is about to be issued its token.
InitSession ==
    /\ users = {[id |-> 1, email |-> "a@x.com",
                 hashed_password |-> hash_password("abcdefg1"),
                 auth_provider |-> "email", is_active |-> TRUE],
                [id |-> 2, email |-> "b@x.com", hashed_password |-> None,
                 auth_provider |-> "google", is_active |-> TRUE]}
    /\ profiles = {[id |-> 1, user_id |-> 2, provider |-> "google",
                    provider_user_id |-> "g2"]}
    /\ req = [p \in Procs |-> Idle]
    /\ opsStarted = 0
    /\ now = 0
    /\ \E u \in users :
        jwt = [NoJwt EXCEPT
                 !.pc = "start",
                 !.data = SessionData(u, IF u.auth_provider = "google"
                                         THEN "google_oauth" ELSE "password")]
    /\ limiter = NoLimiter

NextSession ==
    \/ CreateAccessToken
    \/ Tick
    \/ ValidateToken
    \/ RefreshToken
    \/ GetCurrentUser
    \/ Present
    \/ \E p \in Procs :
        \/ AuthenticateUser(p)
        \/ DeactivateUser(p)
        \/ ReactivateUser(p)
        \/ Respond(p)

SpecSession == InitSession /\ [][NextSession]_vars

\* ---- core/security_middleware.py: RateLimitingMiddleware ------------------
\* the limits the middleware is constructed with
requests_per_minute == 2
requests_per_hour == 3

\* the clock counts ticks; a minute and an hour of the calendar
TicksPerMinute == 2
MinutesPerHour == 2
MaxClock == 8

exclude_paths == {"/health", "/metrics"}
Paths == {"/api/v1/auth/login", "/health"}

\* current_time.strftime("%Y-%m-%d %H:%M") and strftime("%Y-%m-%d %H"): the
\* minute, the hour of the calendar the instant lies in
minute_key(current_time) == current_time \div TicksPerMinute
hour_key(current_time) == current_time \div (TicksPerMinute * MinutesPerHour)

\* dict.get(key, default)
get(d, key, default) == IF key \in DOMAIN d THEN d[key] ELSE default

NoBucket == [key \in {} |-> 0]

check_rate_limits_off_by_one(l, client_ip, current_time) ==
    LET minute_count == get(get(l.minute_buckets, client_ip, NoBucket),
                            minute_key(current_time), 0)
        hour_count == get(get(l.hour_buckets, client_ip, NoBucket),
                          hour_key(current_time), 0)
    IN IF minute_count > requests_per_minute THEN FALSE
       ELSE IF hour_count > requests_per_hour THEN FALSE
       ELSE TRUE

\* _check_rate_limits(client_ip, current_time)
check_rate_limits(l, client_ip, current_time) ==
    LET minute_bucket == get(l.minute_buckets, client_ip, NoBucket)
        minute_count == get(minute_bucket, minute_key(current_time), 0)
        hour_bucket == get(l.hour_buckets, client_ip, NoBucket)
        hour_count == get(hour_bucket, hour_key(current_time), 0)
    IN IF minute_count >= requests_per_minute THEN FALSE
       ELSE IF hour_count >= requests_per_hour THEN FALSE
       ELSE TRUE

\* buckets[client_ip][key] = buckets[client_ip].get(key, 0) + 1, after
\* `if client_ip not in buckets: buckets[client_ip] = {}`
increment(buckets, client_ip, key) ==
    LET bucket == get(buckets, client_ip, NoBucket)
    IN update(buckets,
              [ip \in {client_ip} |->
                 update(bucket, [k \in {key} |-> get(bucket, key, 0) + 1])])

\* _cleanup_old_buckets, one of its two loops: in every bucket the keys
\* other than keys_to_keep are deleted, then the empty buckets
cleanup_old_buckets(buckets, keys_to_keep) ==
    LET cleaned == [ip \in DOMAIN buckets |->
                      Without(buckets[ip], DOMAIN buckets[ip] \ keys_to_keep)]
    IN Without(cleaned, {ip \in DOMAIN cleaned : DOMAIN cleaned[ip] = {}})

\* _update_rate_limits(client_ip, current_time), cleanup included
update_rate_limits(l, client_ip, current_time) ==
    LET prev_minute == minute_key(current_time - TicksPerMinute)
        prev_hour == hour_key(current_time - TicksPerMinute * MinutesPerHour)
    IN [l EXCEPT
          !.minute_buckets =
              cleanup_old_buckets(
                  increment(@, client_ip, minute_key(current_time)),
                  {minute_key(current_time), prev_minute}),
          !.hour_buckets =
              cleanup_old_buckets(
                  increment(@, client_ip, hour_key(current_time)),
                  {hour_key(current_time), prev_hour})]

Answer(client_ip, path, status_code) ==
    [client_ip |-> client_ip, path |-> path, status_code |-> status_code]

\* dispatch(request, call_next): an excluded path is forwarded unseen; a
\* request over a limit is answered 429; any other is counted and forwarded
\* (200 stands for the response of call_next).  forwarded_minute and
\* forwarded_hour record what was forwarded for the property's sake.
Dispatch ==
    /\ \E client_ip \in IPs, path \in Paths :
        LET current_time == limiter.clock
        IN IF path \in exclude_paths
           THEN limiter' = [limiter EXCEPT !.last = Answer(client_ip, path, 200)]
           ELSE IF ~check_rate_limits(limiter, client_ip, current_time)
           THEN limiter' = [limiter EXCEPT !.last = Answer(client_ip, path, 429)]
           ELSE limiter' =
                  [update_rate_limits(limiter, client_ip, current_time) EXCEPT
                     !.last = Answer(client_ip, path, 200),
                     !.forwarded_minute[client_ip] = @ + 1,
                     !.forwarded_hour[client_ip] = @ + 1]
    /\ UNCHANGED <<users, profiles, req, opsStarted, now, jwt>>

\* datetime.now() moves on; a new minute, a new hour of the calendar starts
\* its own count of forwarded requests
TickClock ==
    /\ limiter.clock < MaxClock
    /\ LET t == limiter.clock + 1
       IN limiter' =
            [limiter EXCEPT
               !.clock = t,
               !.forwarded_minute =
                   IF minute_key(t) # minute_key(limiter.clock)
                   THEN [ip \in IPs |-> 0] ELSE @,
               !.forwarded_hour =
                   IF hour_key(t) # hour_key(limiter.clock)
                   THEN [ip \in IPs |-> 0] ELSE @]
    /\ UNCHANGED <<users, profiles, req, opsStarted, now, jwt>>

NextRateLimit ==
    \/ Dispatch
    \/ TickClock

SpecRateLimit == Init /\ [][NextRateLimit]_vars

TypeOK ==
    /\ opsStarted \in 0..MaxOps
    /\ \A p \in Procs : req[p].pc \in
         {"idle", "done", "verify_token_info", "get_user_info",
          "find_oauth_profile", "find_user_by_email", "link_oauth_profile",
          "create_oauth_user", "create_oauth_user_commit", "create_user",
          "create_user_commit"}

\* ==== properties ==========================================================
Done(p) == req[p].pc = "done"
Stepped(p) == req'[p] # req[p]

\* rows of a subject, of an e-mail
RowsOfSubject(ps, subject) ==
    {pr \in ps : pr.provider = "google" /\ pr.provider_user_id = subject}
RowsOfEmail(us, email) == {u \in us : u.email = email}

\* C1: in every reachable state no two OAuthProfile rows share the same
\* (provider, provider_user_id) pair, whatever the interleaving of external
\* logins and registrations.
C1_UniqueExternalIdentity ==
    \A p1, p2 \in profiles :
        (p1.provider = p2.provider /\ p1.provider_user_id = p2.provider_user_id)
            => p1.id = p2.id

\* a request that passed the existence check is about to insert a pair that
\* another request has committed in the meantime
C1_Witness ==
    \E p \in Procs :
        /\ req[p].pc \in {"link_oauth_profile", "create_oauth_user_commit"}
        /\ RowsOfSubject(profiles, req[p].tok.id) # {}

\* C2: in every reachable state a user has no password hash if and only if
\* its auth_provider is GOOGLE.
C2_PasswordIffNotExternal ==
    \A u \in users : (u.hashed_password = None) <=> (u.auth_provider = "google")

\* a request is about to link a new subject onto the active OAuth-only user
\* it found by e-mail (the commit that would make it MIXED without a hash)
C2_Witness ==
    \E p \in Procs :
        /\ req[p].pc = "link_oauth_profile"
        /\ RowsOfSubject(profiles, req[p].tok.id) = {}
        /\ \E u \in users : u.id = req[p].user /\ u.hashed_password = None

\* ---- racing external logins ----------------------------------------------
\* C3: a request that passed the existence checks for a subject which another
\* request has committed in the meantime does not end in an error at its
\* next step: the uniqueness conflict is not surfaced, it goes on to return
\* the winner's user.
C3_LoserReturnsWinner ==
    [][\A p \in Procs :
         (/\ req[p].pc \in {"link_oauth_profile", "create_oauth_user",
                            "create_oauth_user_commit"}
          /\ RowsOfSubject(profiles, req[p].tok.id) # {}
          /\ Stepped(p))
         => req'[p].result.status # "error"]_vars

C7_UnverifiedEmailRejected ==
    \A p \in Procs :
        (/\ req[p].last.endpoint = "userinfo"
         /\ req[p].last.status_code = 200
         /\ req[p].last.body = "unverified")
        => /\ Done(p)
           /\ req[p].nTokenInfo = req[p].attempt + 1
           /\ req[p].nUserInfo = req[p].attempt + 1
           /\ req[p].newUsers = 0 /\ req[p].newProfiles = 0
           /\ req[p].result.status = "error"
           /\ req[p].result.error.type = "AuthenticationException"
           /\ req[p].result.error.message = "Google account email must be verified"

\* C8: a login whose first provider call, the tokeninfo call, was answered
\* 401 is over and has failed: that call is the only provider call, the
\* userinfo endpoint was never called and there was no sleep.
C8_Introspection401FailsFast ==
    \A p \in Procs :
        (/\ req[p].last.endpoint = "tokeninfo"
         /\ req[p].last.status_code = 401
         /\ req[p].nTokenInfo = 1)
        => /\ Done(p)
           /\ req[p].result.status = "error"
           /\ req[p].vres = "raised"
           /\ req[p].attempt = 0
           /\ req[p].nUserInfo = 0
           /\ req[p].sleeps = <<>>

\* a login has ended on a 401 from its first tokeninfo call
C8_Witness ==
    \E p \in Procs :
        /\ Done(p)
        /\ req[p].last.endpoint = "tokeninfo" /\ req[p].last.status_code = 401
        /\ req[p].nTokenInfo = 1

\* C9: a 5xx answer or a network error of the tokeninfo call is retryable:
\* the validator gives up on one only in its last attempt (so 500, 500, 200
\* gets to the third attempt).
C9_IntrospectionRetried ==
    \A p \in Procs :
        (/\ Done(p) /\ req[p].vres = "raised"
         /\ req[p].last.endpoint = "tokeninfo"
         /\ (req[p].last.kind = "RequestError" \/ req[p].last.status_code >= 500))
        => req[p].attempt = max_retries - 1

\* the failure a 401 from tokeninfo raises ("invalid token")
InvalidTokenFailure ==
    verify_token_info([kind |-> "response", status_code |-> 401, body |-> None]).error

\* C10: a validator that gave up in its last attempt on a retryable failure
\* raises a failure that differs from the one a 401 raises.
C10_UnavailableIsDistinct ==
    \A p \in Procs :
        (/\ Done(p) /\ req[p].vres = "raised"
         /\ req[p].attempt = max_retries - 1
         /\ (req[p].last.kind = "RequestError" \/ req[p].last.status_code >= 500))
        => /\ req[p].verr # InvalidTokenFailure
           /\ req[p].result.error # authenticate_with_google_except(InvalidTokenFailure)

\* C11: a login whose tokeninfo answer was 200 with a scope that lacks
\* "email" or lacks "profile" ends there: the userinfo endpoint is not called
\* in that iteration, nothing is retried, and the login fails with the
\* authentication failure "Insufficient permissions from Google".
C11_InsufficientScopeRejected ==
    \A p \in Procs :
        (/\ req[p].last.endpoint = "tokeninfo"
         /\ req[p].last.status_code = 200
         /\ req[p].last.body \in {"email openid", "profile openid"})
        => /\ Done(p)
           /\ req[p].nTokenInfo = req[p].attempt + 1
           /\ req[p].nUserInfo = req[p].attempt
           /\ Len(req[p].sleeps) = req[p].attempt
           /\ req[p].result.status = "error"
           /\ req[p].result.error.type = "AuthenticationException"
           /\ req[p].result.error.message = "Insufficient permissions from Google"

\* C12: when the fast-path query finds the profile of the token's subject and
\* the user owning it is inactive, that step ends the request with the
\* authorization failure ACCOUNT_DISABLED and leaves users and profiles as
\* they were.
C12_InactiveOwnerIsAccountDisabled ==
    [][\A p \in Procs :
        (/\ At(p, "find_oauth_profile")
         /\ \E pr \in ProfilesFor("google", req[p].tok.id) :
                ~UserById(pr.user_id).is_active
         /\ Stepped(p))
        => /\ req'[p].pc = "done"
           /\ req'[p].result.status = "error"
           /\ req'[p].result.error.error_code = "ACCOUNT_DISABLED"
           /\ users' = users
           /\ profiles' = profiles]_vars

C13_WitnessNoUser ==
    \E p \in Procs :
        /\ Done(p)
        /\ req[p].op = "authenticate_user"
        /\ req[p].branch = "no_user"
        /\ users # {}

\* C14: when a register_user call with a password that passes the strength
\* check is over, exactly one user has its (lower-cased) e-mail, and the call
\* either created that user or failed with EMAIL_EXISTS.
C14_RegisterCreatesExactlyOne ==
    \A p \in Procs :
        (/\ Done(p)
         /\ req[p].op = "register_user"
         /\ validate_password_strength(req[p].password).valid)
        => /\ Cardinality(RowsOfEmail(users, req[p].email)) = 1
           /\ \/ req[p].result.status = "ok" /\ req[p].newUsers = 1
              \/ /\ req[p].result.status = "error"
                 /\ req[p].result.error.error_code = "EMAIL_EXISTS"

\* The repository below register_user: no two users share an e-mail, and a
\* register_new_user call either created its user or failed with EMAIL_EXISTS.
CreateUserKeepsEmailUnique ==
    /\ user_email_unique(users)
    /\ \A p \in Procs :
        (Done(p) /\ req[p].op = "register_new_user")
        => \/ req[p].result.status = "ok" /\ req[p].newUsers = 1
           \/ /\ req[p].result.status = "error"
              /\ req[p].result.error.error_code = "EMAIL_EXISTS"
              /\ req[p].newUsers = 0

\* C15: a register_user call whose password fails the strength check (shorter
\* than 8, no letter, no digit, or a deny-listed substring) ends with the
\* validation failure of the password field, has created no user and has
\* issued no token.
C15_WeakPasswordRejected ==
    \A p \in Procs :
        (/\ Done(p)
         /\ req[p].op = "register_user"
         /\ ~validate_password_strength(req[p].password).valid)
        => /\ req[p].result.status = "error"
           /\ req[p].result.error.type = "ValidationException"
           /\ req[p].result.error.error_code = "VALIDATION_ERROR"
           /\ req[p].newUsers = 0
           /\ req[p].result.claims = NoClaims

\* C16: a Google login of a new subject that found no user with its e-mail,
\* and whose e-mail a password registration has committed in the meantime,
\* does not end in an error at its next step, and users keep distinct
\* e-mails.
C16_EmailRaceRecovered ==
    [][/\ user_email_unique(users')
       /\ \A p \in Procs :
            (/\ req[p].pc \in {"create_oauth_user", "create_oauth_user_commit"}
             /\ RowsOfSubject(profiles, req[p].tok.id) = {}
             /\ \E u \in RowsOfEmail(users, req[p].tok.email) :
                    u.auth_provider = "email"
             /\ Stepped(p))
            => req'[p].result.status # "error"]_vars

\* ---- tokens ----------------------------------------------------------------
\* C17: a refresh with the issued token after its expiry fails with
\* TOKEN_EXPIRED, and a refresh with a forged, malformed or empty token fails
\* with INVALID_TOKEN: the refresh flow tells the two apart.
C17_ExpiredDistinctFromInvalid ==
    (jwt.pc = "done" /\ jwt.result.op = "refresh_token")
    => /\ (jwt.presented = "issued" /\ now > jwt.token.claims.exp)
            => /\ jwt.result.kind = "raise"
               /\ jwt.result.error.error_code = "TOKEN_EXPIRED"
       /\ jwt.presented \in {"forged", "malformed", "empty"}
            => /\ jwt.result.kind = "raise"
               /\ jwt.result.error.error_code = "INVALID_TOKEN"

\* what expires_delta stands for
Ttl(expires_delta) ==
    IF expires_delta # 0 THEN expires_delta ELSE JWT_EXPIRE_MINUTES

\* the issued token is decoded no later than its expiry
DecodedInTime ==
    /\ jwt.pc = "done"
    /\ jwt.result.op = "decode_token"
    /\ jwt.presented = "issued"
    /\ now <= jwt.token.claims.iat + Ttl(jwt.expires_delta)

\* C18 (as stated): decoding the issued token before its ttl has elapsed
\* returns claims which, the keys exp and iat apart, are the input claims.
C18_RoundTripModuloTiming ==
    DecodedInTime
    => /\ jwt.result.kind = "return"
       /\ Without(jwt.result.claims, {"exp", "iat"})
            = Without(jwt.data, {"exp", "iat"})

\* C18 (amended): decoding the issued token before its ttl has elapsed
\* returns the input claims with exp, iat and type written over them: the
\* other keys are the input's, type is "bearer", iat is the time of issue and
\* exp is iat plus the ttl.
C18_RoundTripModuloAdded ==
    DecodedInTime
    => /\ jwt.result.kind = "return"
       /\ DOMAIN jwt.result.claims = DOMAIN jwt.data \cup {"exp", "iat", "type"}
       /\ Without(jwt.result.claims, {"exp", "iat", "type"})
            = Without(jwt.data, {"exp", "iat", "type"})
       /\ jwt.result.claims.type = TOKEN_TYPE
       /\ jwt.result.claims.iat <= now
       /\ jwt.result.claims.exp = jwt.result.claims.iat + Ttl(jwt.expires_delta)

\* a token with three claims of its own, issued with an explicit ttl, has
\* been decoded a minute after it was issued
C18_Witness ==
    /\ DecodedInTime
    /\ jwt.result.kind = "return"
    /\ {"sub", "email", "auth_method"} \subseteq DOMAIN jwt.data
    /\ jwt.expires_delta # 0
    /\ now > jwt.result.claims.iat

PasswordTokenCarriesAuthMethod ==
    \A p \in Procs :
        (/\ Done(p)
         /\ req[p].result.status = "ok"
         /\ req[p].op \in {"register_user", "authenticate_user"})
        => /\ {"sub", "email", "auth_method"} \subseteq DOMAIN req[p].result.claims
           /\ req[p].result.claims.sub = Str(req[p].result.user_id)
           /\ req[p].result.claims.auth_method = "password"

\* ---- password hashes -------------------------------------------------------
\* C20: a successful authenticate_user leaves, in the store, a fresh hash of
\* the same password when the user's stored hash needed rehashing, and the
\* stored hash itself when it did not.
C20_RehashOnLogin ==
    [][\A p \in Procs :
        (/\ req[p].pc = "idle"
         /\ req'[p].pc = "done"
         /\ req'[p].op = "authenticate_user"
         /\ req'[p].result.status = "ok")
        => LET old == UserById(req'[p].result.user_id)
               new == CHOOSE u \in users' : u.id = old.id
           IN IF needs_rehash(old.hashed_password)
              THEN /\ ~needs_rehash(new.hashed_password)
                   /\ new.hashed_password =
                        hash_password(bcrypt_digest(old.hashed_password))
              ELSE new.hashed_password = old.hashed_password]_vars

\* ---- the failures that reach the caller ------------------------------------
\* C21: every failure of register_user, authenticate_user and the Google
\* login reaches the caller as an exception of the API's own hierarchy (one
\* that carries an ErrorCode); no Python built-in exception escapes.
C21_FailuresAreOfTheTaxonomy ==
    \A p \in Procs :
        (/\ Done(p)
         /\ req[p].result.status = "error"
         /\ req[p].op \in {"register_user", "authenticate_user", "google"})
        => /\ req[p].result.error.error_code \in ErrorCode
           /\ req[p].result.error.type \notin {"AttributeError", "KeyError"}

\* the two password operations on their own do keep to the hierarchy
PasswordFailuresAreOfTheTaxonomy ==
    \A p \in Procs :
        (/\ Done(p)
         /\ req[p].result.status = "error"
         /\ req[p].op \in {"register_user", "authenticate_user"})
        => req[p].result.error.error_code \in ErrorCode

\* ---- the validator's time --------------------------------------------------
\* seconds slept in the first n backoffs of a request
RECURSIVE Slept(_, _)
Slept(sleeps, n) == IF n = 0 THEN 0 ELSE Slept(sleeps, n - 1) + sleeps[n]

\* the step calls tokeninfo or userinfo for request p
CallsProvider(p) ==
    \/ req'[p].nTokenInfo > req[p].nTokenInfo
    \/ req'[p].nUserInfo > req[p].nUserInfo

\* deadlines of the caller, in seconds after the request started
Deadlines == 1..(base_delay * (Pow2(max_retries - 1) - 1))

\* the deadline fell strictly inside one of the backoffs slept so far
ElapsedMidBackoff(sleeps, deadline) ==
    \E n \in 1..Len(sleeps) :
        Slept(sleeps, n - 1) < deadline /\ deadline < Slept(sleeps, n)

\* C22: whatever the caller's deadline, a request whose deadline elapsed
\* while it was sleeping in a backoff calls neither tokeninfo nor userinfo
\* afterwards.
C22_NoCallAfterDeadline ==
    [][\A p \in Procs : \A deadline \in Deadlines :
         ElapsedMidBackoff(req[p].sleeps, deadline) => ~CallsProvider(p)]_vars

Rank(pc) ==
    CASE pc = "idle" -> 0
      [] pc \in {"verify_token_info", "get_user_info"} -> 1
      [] pc = "find_oauth_profile" -> 2
      [] pc = "find_user_by_email" -> 3
      [] pc \in {"link_oauth_profile", "create_oauth_user"} -> 4
      [] pc = "create_oauth_user_commit" -> 5
      [] OTHER -> 6

\* the answer is one the retry loop retries: a 5xx status or a network error
Retryable(resp) == resp.kind = "RequestError" \/ resp.status_code >= 500

\* C24: in every step of a Google login (a) tokeninfo and userinfo are called
\* only while the validator runs, never once it has returned or raised and
\* never from the resolver; (b) a new attempt starts only inside the
\* validator, as the next attempt, after a 5xx or network-error answer;
\* (c) an answer that is a failure and is not retryable ends the request in
\* that step; (d) the resolver's statements are each run at most once, in
\* order, and never lead back into the validator.
C24_RetriesOnlyInsideValidator ==
    [][\A p \in Procs :
        (Stepped(p) /\ req[p].op = "google" /\ req'[p].op = "google")
        => /\ CallsProvider(p)
                => /\ req[p].pc \in {"verify_token_info", "get_user_info"}
                   /\ req[p].vres = "none"
           /\ (req'[p].pc = "verify_token_info")
                => /\ req[p].pc \in {"verify_token_info", "get_user_info"}
                   /\ req'[p].attempt = req[p].attempt + 1
                   /\ Retryable(req'[p].last)
           /\ (/\ CallsProvider(p)
               /\ ~Retryable(req'[p].last)
               /\ req'[p].pc \notin {"get_user_info", "find_oauth_profile"})
                => req'[p].pc = "done" /\ req'[p].result.status = "error"
           /\ (Rank(req[p].pc) >= 2) => Rank(req'[p].pc) > Rank(req[p].pc)
           /\ Rank(req'[p].pc) >= Rank(req[p].pc)
           /\ (req[p].vres # "none") => req'[p].vres = req[p].vres]_vars

\* a login was retried once and then ended on an unverified e-mail
C24_Witness ==
    \E p \in Procs :
        /\ Done(p)
        /\ req[p].op = "google"
        /\ req[p].attempt = 1
        /\ req[p].nTokenInfo = 2
        /\ req[p].last.endpoint = "userinfo"
        /\ req[p].last.body = "unverified"
        /\ req[p].result.status = "error"

\* C25: a request never starts more than max_retries attempts, hence calls
\* each endpoint at most max_retries times; it has slept exactly once per
\* attempt after the first, base_delay seconds before the second attempt and
\* twice that before the third, so it has never slept after its last attempt
\* or after a failure that is not retried.
C25_BoundedAttemptsAndBackoff ==
    \A p \in Procs :
        /\ req[p].attempt < max_retries
        /\ req[p].nTokenInfo <= req[p].attempt + 1
        /\ req[p].nUserInfo <= req[p].attempt + 1
        /\ Len(req[p].sleeps) = req[p].attempt
        /\ \A i \in 1..Len(req[p].sleeps) :
               req[p].sleeps[i] = base_delay * Pow2(i - 1)
        /\ (req[p].pc \in {"verify_token_info", "get_user_info"})
               => req[p].nTokenInfo >= req[p].attempt

\* a login used all its attempts: three calls of each endpoint, backoffs of
\* 1 and 2 seconds, then the failure
C25_Witness ==
    \E p \in Procs :
        /\ Done(p)
        /\ req[p].op = "google"
        /\ req[p].nTokenInfo = max_retries
        /\ req[p].nUserInfo = max_retries
        /\ req[p].sleeps = <<1, 2>>
        /\ req[p].result.status = "error"

\* ---- linking ---------------------------------------------------------------
\* the OAuthProfile rows of a user for a provider
ProfilesOfUser(ps, user_id, provider) ==
    {pr \in ps : pr.user_id = user_id /\ pr.provider = provider}

\* C26: whenever a step changes the auth_provider of a stored user, the old
\* value is "email", the new one is "mixed", and the step is a linking that
\* commits the user's first OAuth profile; so a user that is "mixed" (or
\* "google") keeps its value in every step.
C26_ProviderChangesOnlyEmailToMixed ==
    [][\A u \in users : \A v \in users' :
         (u.id = v.id /\ u.auth_provider # v.auth_provider)
         => /\ u.auth_provider = "email"
            /\ v.auth_provider = "mixed"
            /\ ProfilesOfUser(profiles, u.id, "google") = {}
            /\ Cardinality(ProfilesOfUser(profiles', u.id, "google")) = 1
            /\ \E p \in Procs :
                 /\ req[p].pc = "link_oauth_profile"
                 /\ req[p].user = u.id
                 /\ req'[p].result.status = "ok"]_vars

\* a user that was already "mixed" has been linked again and is still "mixed"
C26_Witness ==
    \E u \in users : \E p \in Procs :
        /\ u.auth_provider = "mixed"
        /\ Cardinality(ProfilesOfUser(profiles, u.id, "google")) = 2
        /\ Done(p)
        /\ req[p].branch = "link"
        /\ req[p].result.status = "ok"
        /\ req[p].result.user_id = u.id

C28_NewAccountIsAtomic ==
    [][/\ \A p \in Procs :
            (req[p].pc = "create_oauth_user_commit" /\ Stepped(p))
            => IF req'[p].result.status = "ok"
               THEN \E u \in users' \ users : \E pr \in profiles' \ profiles :
                      /\ users' = users \cup {u}
                      /\ profiles' = profiles \cup {pr}
                      /\ pr.user_id = u.id
                      /\ u.auth_provider = "google"
                      /\ req'[p].result.user_id = u.id
               ELSE users' = users /\ profiles' = profiles
       /\ \A u \in users' :
            u.auth_provider = "google"
            => ProfilesOfUser(profiles', u.id, "google") # {}
       /\ \A pr \in profiles' : \E u \in users' : u.id = pr.user_id]_vars

\* a creation whose user had been flushed failed at the commit of the
\* profile and was rolled back: no row of it is stored
C28_Witness ==
    \E p \in Procs :
        /\ Done(p)
        /\ req[p].branch = "new_rollback"
        /\ req[p].result.status = "error"
        /\ req[p].newUsers = 0
        /\ Cardinality(users) = 1
        /\ Cardinality(profiles) = 1

\* ---- deactivation ----------------------------------------------------------
\* the stored user a token was issued to is deactivated
TokenOwnerInactive ==
    /\ "sub" \in DOMAIN jwt.token.claims
    /\ \E u \in users : Str(u.id) = jwt.token.claims.sub /\ ~u.is_active

\* C29: while a user is deactivated no operation authenticates it: (a) a
\* password login never returns a user that is inactive, and a login that
\* finds no active user for its e-mail fails with InvalidCredentials (401);
\* (b) validate_token, refresh_token and get_current_user, given the token
\* that was issued to the user, each end with an exception, expired or not.
C29_DeactivatedUserNotAuthenticated ==
    [][/\ \A p \in Procs :
            (Stepped(p) /\ req'[p].pc = "done" /\ req'[p].op = "authenticate_user")
            => /\ (req'[p].result.status = "ok")
                    => \E u \in users :
                         u.id = req'[p].result.user_id /\ u.is_active
               /\ (req'[p].branch = "no_user")
                    => /\ req'[p].result.status = "error"
                       /\ req'[p].result.error = InvalidCredentialsException
                       /\ req'[p].result.error.error_code = "INVALID_CREDENTIALS"
       /\ (/\ jwt.pc = "issued"
           /\ jwt'.pc = "done"
           /\ jwt'.result.op \in {"validate_token", "refresh_token",
                                  "get_current_user"}
           /\ TokenOwnerInactive)
            => /\ jwt'.result.kind = "raise"
               /\ jwt'.result.claims = EmptyData
               /\ jwt'.result.token = NoAccessToken]_vars

\* the owner of an unexpired token was deactivated; its token has just been
\* refused by validate_token and its password login by the service
C29_Witness ==
    /\ jwt.pc = "done"
    /\ jwt.result.op = "validate_token"
    /\ jwt.result.kind = "raise"
    /\ TokenOwnerInactive
    /\ now < jwt.token.claims.exp
    /\ jwt.token.claims.sub = "1"
    /\ \E p \in Procs :
        /\ Done(p)
        /\ req[p].op = "authenticate_user"
        /\ req[p].branch = "no_user"

C29_WitnessRefresh ==
    /\ jwt.pc = "done" /\ jwt.result.op = "refresh_token"
    /\ jwt.result.kind = "raise" /\ TokenOwnerInactive
    /\ now < jwt.token.claims.exp

C29_WitnessCurrentUser ==
    /\ jwt.pc = "done" /\ jwt.result.op = "get_current_user"
    /\ jwt.result.kind = "raise" /\ TokenOwnerInactive
    /\ now < jwt.token.claims.exp

\* after the reactivation the same token is accepted again
C29_WitnessReactivated ==
    /\ jwt.pc = "done" /\ jwt.result.op = "validate_token"
    /\ jwt.result.kind = "return"
    /\ \E p \in Procs : Done(p) /\ req[p].op = "reactivate_user"
                        /\ req[p].result.status = "ok"
                        /\ Str(req[p].result.user_id) = jwt.token.claims.sub


\* the Google login decides on the stored is_active too: the fast path
\* returns, and the lookup by e-mail selects, only a user that is active
GoogleLoginReadsOnlyActiveUsers ==
    [][\A p \in Procs :
         (Stepped(p) /\ req[p].op = "google")
         => /\ (req[p].pc = "find_oauth_profile" /\ req'[p].pc = "done"
                /\ req'[p].result.status = "ok")
                => \E u \in users : u.id = req'[p].result.user_id /\ u.is_active
            /\ (req'[p].pc = "link_oauth_profile" /\ req[p].pc = "find_user_by_email")
                => \E u \in users : u.id = req'[p].user /\ u.is_active
            /\ (req[p].pc = "create_oauth_user_commit"
                /\ req'[p].result.status = "ok")
                => req'[p].result.user_id \notin {u.id : u \in users}]_vars


C30_WitnessHour ==
    /\ limiter.last.status_code = 429
    /\ limiter.forwarded_minute[limiter.last.client_ip] < requests_per_minute
    /\ limiter.forwarded_hour[limiter.last.client_ip] = requests_per_hour

====
